---- MODULE Spec2Model ----
(***************************************************************************)
(* Model of ldm/modules/kohya_lora_manager.py: the patch registry          *)
(* (LoRAModuleWrapper), adapter parsing (LoRA.load_from_dict), the layer   *)
(* deltas (LoRALayer, LoHALayer) and the manager (KohyaLoraManager).       *)
(*                                                                         *)
(* Strings that the code splits, joins or rewrites are sequences of        *)
(* tokens; "." and "_" are tokens of their own, so that                    *)
(* str.replace(".", "_"), str.split(".", 1), startswith and endswith are   *)
(* computed, not assumed.  Tensors are records [shape, v]: the shape is    *)
(* the tuple torch reports, v a scalar standing for the tensor's entries.  *)
(* Floats are exact rationals <<numerator, denominator>>.                  *)
(***************************************************************************)
EXTENDS Integers, Sequences, FiniteSets, TLC

VARIABLES
    unet,            \* LoRAModuleWrapper.unet: the backbone's module tree
    text_encoder,    \* LoRAModuleWrapper.text_encoder: the text encoder's tree
    hooks,           \* LoRAModuleWrapper.hooks: the list of hook handles
    text_modules,    \* LoRAModuleWrapper.text_modules (None before discovery)
    unet_modules,    \* LoRAModuleWrapper.unet_modules (None before discovery)
    disk,            \* the files under KohyaLoraManager.lora_path
    heap,            \* the LoRA objects created so far, by object id
    loaded_loras,    \* LoRAModuleWrapper.loaded_loras: name -> object id
    applied_loras,   \* LoRAModuleWrapper.applied_loras: insertion-ordered (name, id)
    loras_to_load,   \* KohyaLoraManager.loras_to_load
    state_dict,      \* the argument of the load_from_dict call under study
    parsed,          \* the LoRA object that call left behind, and how it ended
    last,            \* the most recent manager call: operation, arguments, outcome
    requested        \* name -> mult of the latest apply_lora_model that found a file

vars == <<unet, text_encoder, hooks, text_modules, unet_modules, disk, heap,
          loaded_loras, applied_loras, loras_to_load, state_dict, parsed, last,
          requested>>

\* Python's None and the values that may be None: None is the empty set, a
\* present value x the singleton {x}, Val gives x back.  A string-valued field
\* that may be None holds NoneStr.
None == {}
Some(x) == {x}
Val(o) == CHOOSE x \in o : TRUE
NoneStr == "None"

Dot == "."
Us == "_"

\* ------------------------------------------------------------------ strings

\* "." .join(path), each path element a token sequence
RECURSIVE JoinDot(_)
JoinDot(path) ==
    IF path = <<>> THEN <<>>
    ELSE IF Len(path) = 1 THEN path[1]
    ELSE path[1] \o <<Dot>> \o JoinDot(Tail(path))

\* s.replace(".", "_")
ReplaceDots(s) == [i \in 1..Len(s) |-> IF s[i] = Dot THEN Us ELSE s[i]]

\* s.startswith(p)
StartsWith(s, p) == Len(s) >= Len(p) /\ SubSeq(s, 1, Len(p)) = p

\* s.endswith(p)
EndsWith(s, p) == Len(s) >= Len(p) /\ SubSeq(s, Len(s) - Len(p) + 1, Len(s)) = p

\* p in s
Contains(s, p) ==
    \E i \in 1..(Len(s) + 1) : i + Len(p) - 1 <= Len(s) /\ SubSeq(s, i, i + Len(p) - 1) = p

\* position of the first "." of s, 0 when there is none
FirstDot(s) ==
    IF \E i \in 1..Len(s) : s[i] = Dot
    THEN CHOOSE i \in 1..Len(s) : s[i] = Dot /\ \A j \in 1..(i - 1) : s[j] # Dot
    ELSE 0

\* ------------------------------------------------------- registry constants

UNET_TARGET_REPLACE_MODULE ==
    {"Transformer2DModel", "Attention", "ResnetBlock2D", "Downsample2D",
     "Upsample2D", "SpatialTransformer"}
TEXT_ENCODER_TARGET_REPLACE_MODULE == {"ResidualAttentionBlock", "CLIPAttention", "CLIPMLP"}
LORA_PREFIX_UNET == <<"lora", Us, "unet">>
LORA_PREFIX_TEXT_ENCODER == <<"lora", Us, "te">>

\* ------------------------------------------------------------ module trees

\* A network is the sequence of its modules in named_modules() order (pre-order,
\* the root first with the empty path).  A module records its path from the
\* root, its class name and, for Linear and Conv2d, what the code reads of it:
\* kernel_size (k for k x k), stride, padding, the in/out widths of its weight,
\* and scalars standing for weight.data and bias.data (bias None when absent).
\* dilation and groups are 1 in every modelled network.
Block(path, cls) ==
    [path |-> path, cls |-> cls, kernel |-> 0, stride |-> 0, padding |-> 0,
     cin |-> 0, cout |-> 0, w |-> 0, bias |-> None]
\* bias is None or Some(b)
LinearM(path, cin, cout, w, bias) ==
    [path |-> path, cls |-> "Linear", kernel |-> 0, stride |-> 0, padding |-> 0,
     cin |-> cin, cout |-> cout, w |-> w, bias |-> bias]
Conv2dM(path, kernel, stride, padding, cin, cout, w, bias) ==
    [path |-> path, cls |-> "Conv2d", kernel |-> kernel, stride |-> stride,
     padding |-> padding, cin |-> cin, cout |-> cout, w |-> w, bias |-> bias]

\* module.weight.shape
WeightShape(m) ==
    IF m.cls = "Conv2d" THEN <<m.cout, m.cin, m.kernel, m.kernel>> ELSE <<m.cout, m.cin>>

IsPrefix(p, q) == Len(p) <= Len(q) /\ SubSeq(q, 1, Len(p)) = p

\* the dotted name root.named_modules() gives the module
DottedName(m) == JoinDot(m.path)

\* the dotted name module.named_modules() gives a descendant
ChildName(module, child) ==
    JoinDot(SubSeq(child.path, Len(module.path) + 1, Len(child.path)))

\* the layer-type test of find_modules
Patchable(child) ==
    \/ child.cls = "Linear"
    \/ child.cls = "Conv2d" /\ child.kernel \in {1, 3}

\* lora_name of find_modules
LoraName(prefix, module, child) ==
    ReplaceDots(prefix \o <<Dot>> \o DottedName(module) \o <<Dot>> \o ChildName(module, child))

\* The (module, child) pairs find_modules visits, in the order of its two loops.
Visits(prefix, root, targets) ==
    LET n == Len(root)
        pairs == [k \in 1..(n * n) |-> <<((k - 1) \div n) + 1, ((k - 1) % n) + 1>>]
        hit(p) == /\ root[p[1]].cls \in targets
                  /\ IsPrefix(root[p[1]].path, root[p[2]].path)
                  /\ Patchable(root[p[2]])
    IN  SelectSeq(pairs, hit)

\* the handle apply_module_forward appends for one visit
Handle(net, prefix, root, p) ==
    [net |-> net, module |-> root[p[2]].path, name |-> LoraName(prefix, root[p[1]], root[p[2]])]

HooksOf(net, prefix, root, targets) ==
    LET v == Visits(prefix, root, targets)
    IN  [k \in 1..Len(v) |-> Handle(net, prefix, root, v[k])]

\* the mapping find_modules returns: a later visit overwrites an earlier one
find_modules(prefix, root, targets) ==
    LET v == Visits(prefix, root, targets)
        name(k) == LoraName(prefix, root[v[k][1]], root[v[k][2]])
        lastOf(s) == CHOOSE k \in 1..Len(v) : name(k) = s /\ \A j \in (k + 1)..Len(v) : name(j) # s
    IN  [s \in {name(k) : k \in 1..Len(v)} |-> root[v[lastOf(s)][2]]]

\* ---------------------------------------------------------------- tensors

Tensor(shape, v) == [shape |-> shape, v |-> v]

RECURSIVE Numel(_)
Numel(shape) == IF shape = <<>> THEN 1 ELSE shape[1] * Numel(Tail(shape))

\* torch's rule for dst.copy_(src): src must broadcast to dst's shape
BroadcastsTo(src, dst) ==
    /\ Len(src) <= Len(dst)
    /\ \A i \in 1..Len(src) :
          LET s == src[Len(src) - i + 1]
              d == dst[Len(dst) - i + 1]
          IN  s = d \/ s = 1

\* torch's rule for a + b and a * b
Broadcastable(a, b) ==
    \A i \in 1..(IF Len(a) < Len(b) THEN Len(a) ELSE Len(b)) :
        LET x == a[Len(a) - i + 1]
            y == b[Len(b) - i + 1]
        IN  x = y \/ x = 1 \/ y = 1

BroadcastShape(a, b) ==
    LET n == IF Len(a) < Len(b) THEN Len(b) ELSE Len(a)
        dim(s, i) == IF i <= n - Len(s) THEN 1 ELSE s[i - (n - Len(s))]
    IN  [i \in 1..n |-> IF dim(a, i) = 1 THEN dim(b, i) ELSE dim(a, i)]

\* rationals <<numerator, denominator>> stand for the code's floats
RAdd(p, q) == <<p[1] * q[2] + q[1] * p[2], p[2] * q[2]>>
RMul(p, q) == <<p[1] * q[1], p[2] * q[2]>>
REq(p, q) == p[1] * q[2] = q[1] * p[2]
RInt(n) == <<n, 1>>

\* ---------------------------------------------------------- layer deltas

\* LoRALayer.__init__ / LoHALayer.__init__: alpha / rank if (alpha and rank) else 1.0
Scale(rank, alpha) ==
    IF alpha # None /\ Val(alpha) # 0 /\ rank # None /\ Val(rank) # 0
    THEN <<Val(alpha), Val(rank)>> ELSE <<1, 1>>

\* torch.nn.Linear(cin, cout, bias=False) after weight.copy_(value)
LinearT(cin, cout, value) ==
    [kind |-> "Linear", wshape |-> <<cout, cin>>, stride |-> 0, padding |-> 0, v |-> value.v]

\* torch.nn.Conv2d(cin, cout, (k, k), stride, padding, bias=False) after
\* weight.copy_(value)
Conv2dT(cin, cout, k, stride, padding, value) ==
    [kind |-> "Conv2d", wshape |-> <<cout, cin, k, k>>, stride |-> stride,
     padding |-> padding, v |-> value.v]

LEAF_DOWN == <<"lora", Us, "down", Dot, "weight">>
LEAF_MID == <<"lora", Us, "mid", Dot, "weight">>
LEAF_UP == <<"lora", Us, "up", Dot, "weight">>
LEAF_ALPHA == <<"alpha">>
LEAF_W1A == <<"hada", Us, "w1", Us, "a">>
LEAF_W1B == <<"hada", Us, "w1", Us, "b">>
LEAF_W2A == <<"hada", Us, "w2", Us, "a">>
LEAF_W2B == <<"hada", Us, "w2", Us, "b">>
LEAF_T1 == <<"hada", Us, "t1">>
LEAF_T2 == <<"hada", Us, "t2">>

\* dict.get(key, None)
Get(d, key) == IF key \in DOMAIN d THEN Some(d[key]) ELSE None

\* ------------------------------------------------- LoRA.load_from_dict

\* The first loop (lines 233..256), folded over the items of state_dict.
\* acc = [groups, alpha, rank, is_loha, err]; groups is state_dict_groupped as
\* the sequence of its (stem, values) items in insertion order.
GroupIndex(groups, stem) ==
    IF \E i \in 1..Len(groups) : groups[i].stem = stem
    THEN CHOOSE i \in 1..Len(groups) : groups[i].stem = stem
    ELSE 0

GroupStep(acc, item) ==
    LET d == FirstDot(item.key)
        stem == SubSeq(item.key, 1, d - 1)
        leaf == SubSeq(item.key, d + 1, Len(item.key))
        gi == GroupIndex(acc.groups, stem)
        old == IF gi = 0 THEN <<>> ELSE acc.groups[gi].values
        new == [l \in (DOMAIN old) \cup {leaf} |-> IF l = leaf THEN item.value ELSE old[l]]
        groups == IF gi = 0
                  THEN Append(acc.groups, [stem |-> stem, values |-> new])
                  ELSE [acc.groups EXCEPT ![gi].values = new]
    IN  IF acc.err THEN acc
        ELSE IF d = 0 THEN [acc EXCEPT !.err = TRUE]          \* unpacking split() fails
        ELSE IF EndsWith(leaf, LEAF_ALPHA)
             THEN IF acc.alpha # None THEN [acc EXCEPT !.groups = groups]
                  ELSE IF Numel(item.value.shape) # 1
                       THEN [acc EXCEPT !.groups = groups, !.err = TRUE]   \* .item() fails
                       ELSE [acc EXCEPT !.groups = groups, !.alpha = Some(item.value.v)]
        ELSE [acc EXCEPT
                !.groups = groups,
                !.rank = IF /\ StartsWith(stem, LORA_PREFIX_TEXT_ENCODER)
                               \/ StartsWith(stem, LORA_PREFIX_UNET)
                            /\ acc.rank = None
                            /\ leaf = LEAF_DOWN
                            /\ Len(item.value.shape) = 2
                         THEN Some(item.value.shape[1]) ELSE acc.rank,
                !.is_loha = acc.is_loha \/ Contains(leaf, LEAF_T1)]

RECURSIVE GroupLoop(_, _)
GroupLoop(acc, items) ==
    IF items = <<>> THEN acc ELSE GroupLoop(GroupStep(acc, Head(items)), Tail(items))

\* a stem the second loop does not pass over at once (lines 260..265)
Tracked(stem) ==
    StartsWith(stem, LORA_PREFIX_TEXT_ENCODER) \/ StartsWith(stem, LORA_PREFIX_UNET)

\* The tracked stem's patched layer (lines 260..263): None when the registry has
\* none.
Wrapped(tm, um, stem) ==
    IF StartsWith(stem, LORA_PREFIX_TEXT_ENCODER) THEN Get(tm, stem) ELSE Get(um, stem)

\* BuildLoRALayer with a check of lora_down's input width against the layer
BuildLoRALayer_validating(self_name, self_rank, stem, values, wrapped) ==
    LET value_down == values[LEAF_DOWN]
        value_up == values[LEAF_UP]
        mk(value) == IF wrapped.cls = "Conv2d"
                     THEN Conv2dT(value.shape[2], value.shape[1], 1, 1, 0, value)
                     ELSE LinearT(value.shape[2], value.shape[1], value)
    IN  IF \/ LEAF_UP \notin DOMAIN values
           \/ Len(value_down.shape) < 2
           \/ Len(value_up.shape) < 2
           \/ value_down.shape[2] # wrapped.cin
        THEN [err |-> TRUE, abort |-> FALSE]
        ELSE [err |-> FALSE, abort |-> FALSE,
              layer |-> [variant |-> "lora", lora_name |-> self_name, name |-> stem,
                         scale |-> Scale(self_rank,
                                         IF LEAF_ALPHA \in DOMAIN values
                                         THEN Some(values[LEAF_ALPHA].v) ELSE None),
                         down |-> mk(value_down), mid |-> None, up |-> mk(value_up)]]

\* Lines 275..323: the low-rank delta of one group; [err |-> TRUE] when the
\* code raises, [abort |-> TRUE] when it returns.
BuildLoRALayer(self_name, self_rank, stem, values, wrapped) ==
    LET value_down == values[LEAF_DOWN]
        has_mid == LEAF_MID \in DOMAIN values
        value_mid == values[LEAF_MID]
        dims_ok == /\ Len(value_down.shape) >= 2
                   /\ Len(values[LEAF_UP].shape) >= 2
                   /\ has_mid => Len(value_mid.shape) >= 2
        value_up == values[LEAF_UP]
        conv == wrapped.cls = "Conv2d"
        layer_down ==
            IF conv
            THEN IF has_mid
                 THEN Conv2dT(value_down.shape[2], value_down.shape[1], 1, 1, 0, value_down)
                 ELSE Conv2dT(value_down.shape[2], value_down.shape[1], wrapped.kernel,
                              wrapped.stride, wrapped.padding, value_down)
            ELSE LinearT(value_down.shape[2], value_down.shape[1], value_down)
        layer_mid ==
            IF conv /\ has_mid
            THEN Some(Conv2dT(value_mid.shape[2], value_mid.shape[1], wrapped.kernel,
                              wrapped.stride, wrapped.padding, value_mid))
            ELSE None
        layer_up ==
            IF conv
            THEN Conv2dT(value_up.shape[2], value_up.shape[1], 1, 1, 0, value_up)
            ELSE LinearT(value_up.shape[2], value_up.shape[1], value_up)
        copy_ok == /\ BroadcastsTo(value_down.shape, layer_down.wshape)
                   /\ layer_mid # None => BroadcastsTo(value_mid.shape, Val(layer_mid).wshape)
                   /\ BroadcastsTo(value_up.shape, layer_up.wshape)
        alpha_ok == LEAF_ALPHA \in DOMAIN values => Numel(values[LEAF_ALPHA].shape) = 1
        alpha == IF LEAF_ALPHA \in DOMAIN values THEN Some(values[LEAF_ALPHA].v) ELSE None
    IN  IF LEAF_UP \notin DOMAIN values THEN [err |-> TRUE, abort |-> FALSE]  \* KeyError
        ELSE IF wrapped.cls \notin {"Conv2d", "Linear"} THEN [err |-> FALSE, abort |-> TRUE]
        ELSE IF ~dims_ok THEN [err |-> TRUE, abort |-> FALSE]                 \* IndexError
        ELSE IF ~copy_ok \/ ~alpha_ok THEN [err |-> TRUE, abort |-> FALSE]
        ELSE [err |-> FALSE, abort |-> FALSE,
              layer |-> [variant |-> "lora", lora_name |-> self_name, name |-> stem,
                         scale |-> Scale(self_rank, alpha),
                         down |-> layer_down, mid |-> layer_mid, up |-> layer_up]]

\* Lines 326..348: the Hadamard delta of one group.
BuildLoHALayer(self_name, stem, values, wrapped) ==
    LET with_t == wrapped.cls = "Conv2d" /\ wrapped.kernel # 1
        keys_ok == /\ {LEAF_W1A, LEAF_W2A, LEAF_W2B} \subseteq DOMAIN values
                   /\ with_t => {LEAF_T1, LEAF_T2} \subseteq DOMAIN values
        alpha_ok == LEAF_ALPHA \in DOMAIN values => Numel(values[LEAF_ALPHA].shape) = 1
        alpha == IF LEAF_ALPHA \in DOMAIN values THEN Some(values[LEAF_ALPHA].v) ELSE None
    IN  IF ~alpha_ok \/ Len(values[LEAF_W1B].shape) = 0 \/ ~keys_ok
        THEN [err |-> TRUE, abort |-> FALSE]
        ELSE [err |-> FALSE, abort |-> FALSE,
              layer |-> [variant |-> "loha", lora_name |-> self_name, name |-> stem,
                         scale |-> Scale(Some(values[LEAF_W1B].shape[1]), alpha),
                         org_module |-> wrapped,
                         w1_a |-> values[LEAF_W1A], w1_b |-> values[LEAF_W1B],
                         w2_a |-> values[LEAF_W2A], w2_b |-> values[LEAF_W2B],
                         t1 |-> IF with_t THEN Some(values[LEAF_T1]) ELSE None,
                         t2 |-> IF with_t THEN Some(values[LEAF_T2]) ELSE None]]

\* BuildStep returning at a stem the registry does not know, and passing over a
\* resolved stem of unknown format
BuildStep_swapped(self_name, self_rank, tm, um, acc, group) ==
    LET wrapped == Wrapped(tm, um, group.stem)
        built == IF LEAF_DOWN \in DOMAIN group.values
                 THEN BuildLoRALayer(self_name, self_rank, group.stem, group.values,
                                     Val(wrapped))
                 ELSE IF LEAF_W1B \in DOMAIN group.values
                 THEN BuildLoHALayer(self_name, group.stem, group.values, Val(wrapped))
                 ELSE [err |-> FALSE, abort |-> TRUE]
    IN  IF acc.status # "run" THEN acc
        ELSE IF ~Tracked(group.stem) THEN acc
        ELSE IF wrapped = None THEN [acc EXCEPT !.status = "return"]
        ELSE IF built.err THEN [acc EXCEPT !.status = "raise"]
        ELSE IF built.abort THEN acc
        ELSE [acc EXCEPT !.layers =
                [s \in (DOMAIN acc.layers) \cup {group.stem} |->
                    IF s = group.stem THEN built.layer ELSE acc.layers[s]]]

\* One iteration of the second loop (lines 259..356).
\* acc = [layers, status]: status "run" while the loop goes on, "return" after
\* an early return, "raise" after an exception.
BuildStep(self_name, self_rank, tm, um, acc, group) ==
    LET wrapped == Wrapped(tm, um, group.stem)
        built == IF LEAF_DOWN \in DOMAIN group.values
                 THEN BuildLoRALayer(self_name, self_rank, group.stem, group.values,
                                     Val(wrapped))
                 ELSE IF LEAF_W1B \in DOMAIN group.values
                 THEN BuildLoHALayer(self_name, group.stem, group.values, Val(wrapped))
                 ELSE [err |-> FALSE, abort |-> TRUE]
    IN  IF acc.status # "run" THEN acc
        ELSE IF ~Tracked(group.stem) \/ wrapped = None THEN acc
        ELSE IF built.err THEN [acc EXCEPT !.status = "raise"]
        ELSE IF built.abort THEN [acc EXCEPT !.status = "return"]
        ELSE [acc EXCEPT !.layers =
                [s \in (DOMAIN acc.layers) \cup {group.stem} |->
                    IF s = group.stem THEN built.layer ELSE acc.layers[s]]]

RECURSIVE BuildLoop(_, _, _, _, _, _)
BuildLoop(self_name, self_rank, tm, um, acc, groups) ==
    IF groups = <<>> THEN acc
    ELSE BuildLoop(self_name, self_rank, tm, um,
                   BuildStep(self_name, self_rank, tm, um, acc, Head(groups)), Tail(groups))

\* state_dict_groupped at the end of the first loop
state_dict_groupped(sd) ==
    GroupLoop([groups |-> <<>>, alpha |-> None, rank |-> None,
               is_loha |-> FALSE, err |-> FALSE], sd).groups

\* LoRA.__init__ followed by load_from_dict(sd): the object's fields afterwards,
\* and in `status` how the call ended ("done", "return": the early return of the
\* unknown-format branch, "raise").
load_from_dict(self_name, multiplier, tm, um, sd) ==
    LET g == GroupLoop([groups |-> <<>>, alpha |-> None, rank |-> None,
                        is_loha |-> FALSE, err |-> FALSE], sd)
        b == IF g.err THEN [layers |-> <<>>, status |-> "raise"]
             ELSE BuildLoop(self_name, g.rank, tm, um, [layers |-> <<>>, status |-> "run"], g.groups)
    IN  [name |-> self_name, multiplier |-> multiplier, layers |-> b.layers,
         rank |-> g.rank, alpha |-> g.alpha,
         status |-> IF b.status = "run" THEN "done" ELSE b.status]

\* ------------------------------------------------------------ forward pass

\* An activation is a tensor [shape, v]; a forward result is
\* [err, shape, v] with v a rational, err when torch raises a shape error.
Failed == [err |-> TRUE, shape |-> <<>>, v |-> <<0, 1>>]

\* sub-transform t (a bias-free Linear or Conv2d) applied to activation x
ApplyT(t, x) ==
    IF x.err THEN Failed
    ELSE IF t.kind = "Linear"
    THEN IF Len(x.shape) >= 1 /\ x.shape[Len(x.shape)] = t.wshape[2]
         THEN [err |-> FALSE, shape |-> [x.shape EXCEPT ![Len(x.shape)] = t.wshape[1]],
               v |-> RMul(RInt(t.v), x.v)]
         ELSE Failed
    ELSE IF /\ Len(x.shape) = 4
            /\ x.shape[2] = t.wshape[2]
            /\ x.shape[3] + 2 * t.padding >= t.wshape[3]
            /\ x.shape[4] + 2 * t.padding >= t.wshape[4]
         THEN [err |-> FALSE,
               shape |-> <<x.shape[1], t.wshape[1],
                           ((x.shape[3] + 2 * t.padding - t.wshape[3]) \div t.stride) + 1,
                           ((x.shape[4] + 2 * t.padding - t.wshape[4]) \div t.stride) + 1>>,
               v |-> RMul(RInt(t.v), x.v)]
         ELSE Failed

\* output + delta * lora.multiplier * self.scale
Accumulate(output, delta, multiplier, scale) ==
    IF output.err \/ delta.err \/ ~Broadcastable(output.shape, delta.shape) THEN Failed
    ELSE [err |-> FALSE, shape |-> BroadcastShape(output.shape, delta.shape),
          v |-> RAdd(output.v, RMul(delta.v, RMul(RInt(multiplier), scale)))]

\* LoRALayer.forward
LoRALayer_forward(self, lora, input_h, output) ==
    LET d == ApplyT(self.down, input_h)
        m == IF self.mid = None THEN d ELSE ApplyT(Val(self.mid), d)
    IN  Accumulate(output, ApplyT(self.up, m), lora.multiplier, self.scale)

\* a @ b for the 2-D factors of the modelled checkpoints; <<>> when it raises
MatMulShape(a, b) ==
    IF Len(a) = 2 /\ Len(b) = 2 /\ a[2] = b[1] THEN <<a[1], b[2]>> ELSE <<>>

\* torch.einsum('i j k l, j r, i p -> p r k l', t, wb, wa); <<>> when it raises
RebuildShape(t, wb, wa) ==
    IF Len(t) = 4 /\ Len(wb) = 2 /\ Len(wa) = 2 /\ wb[1] = t[2] /\ wa[1] = t[1]
    THEN <<wa[2], wb[2], t[3], t[4]>> ELSE <<>>

\* the module's own forward with weight v_w in place of weight.data
ModuleOp(m, x, v_w) ==
    LET t == [kind |-> m.cls, wshape |-> WeightShape(m), stride |-> m.stride,
              padding |-> m.padding, v |-> 0]
        y == ApplyT(t, x)
    IN  IF y.err THEN Failed
        ELSE [y EXCEPT !.v = RAdd(RMul(RInt(v_w), x.v),
                                  RInt(IF m.bias = None THEN 0 ELSE Val(m.bias)))]

\* LoHALayer.forward (the statements before its return at line 94)
LoHALayer_forward(self, lora, input_h, output) ==
    LET org == self.org_module
        s1 == IF self.t1 = None
              THEN MatMulShape(self.w1_a.shape, self.w1_b.shape)
              ELSE RebuildShape(Val(self.t1).shape, self.w1_b.shape, self.w1_a.shape)
        s2 == IF self.t1 = None
              THEN MatMulShape(self.w2_a.shape, self.w2_b.shape)
              ELSE RebuildShape(Val(self.t2).shape, self.w2_b.shape, self.w2_a.shape)
        diff_ok == s1 # <<>> /\ s2 # <<>> /\ Broadcastable(s1, s2)
        diff == BroadcastShape(s1, s2)
        weight_ok ==
            IF self.t1 = None
            THEN Numel(diff) = Numel(WeightShape(org))        \* reshape(diff_weight.shape)
            ELSE /\ Broadcastable(WeightShape(org), diff)
                 /\ Numel(BroadcastShape(WeightShape(org), diff)) = Numel(WeightShape(org))
        dv == self.w1_a.v * self.w1_b.v * self.w2_a.v * self.w2_b.v
              * (IF self.t1 = None THEN 1 ELSE Val(self.t1).v * Val(self.t2).v)
    IN  IF ~diff_ok \/ ~weight_ok THEN Failed
        ELSE Accumulate(output, ModuleOp(org, input_h, org.w + dv), lora.multiplier, self.scale)

Layer_forward(layer, lora, input_h, output) ==
    IF layer.variant = "lora" THEN LoRALayer_forward(layer, lora, input_h, output)
    ELSE LoHALayer_forward(layer, lora, input_h, output)

\* the loop of lora_forward over wrapper.applied_loras.values(); applied is the
\* sequence of the LoRA objects in insertion order
RECURSIVE HookLoop(_, _, _, _)
HookLoop(name, applied, input_h, output) ==
    IF applied = <<>> THEN output
    ELSE LET lora == Head(applied)
             layer == Get(lora.layers, name)
         IN  HookLoop(name, Tail(applied), input_h,
                      IF layer = None THEN output
                      ELSE Layer_forward(Val(layer), lora, input_h, output))

\* lora_forward, the hook installed under `name`: n_loaded is
\* len(wrapper.loaded_loras)
lora_forward(name, n_loaded, applied, input_h, output) ==
    IF n_loaded = 0 THEN output ELSE HookLoop(name, applied, input_h, output)

\* ------------------------------------------------- LoRAModuleWrapper.__init__

\* self.hooks after the two find_modules calls: the text encoder's first
wrapper_hooks(u, te) ==
    HooksOf("text_encoder", LORA_PREFIX_TEXT_ENCODER, te, TEXT_ENCODER_TARGET_REPLACE_MODULE)
    \o HooksOf("unet", LORA_PREFIX_UNET, u, UNET_TARGET_REPLACE_MODULE)

wrapper_text_modules(te) ==
    find_modules(LORA_PREFIX_TEXT_ENCODER, te, TEXT_ENCODER_TARGET_REPLACE_MODULE)

wrapper_unet_modules(u) ==
    find_modules(LORA_PREFIX_UNET, u, UNET_TARGET_REPLACE_MODULE)

\* ---------------------------------------------------------- the networks

SEG_BLK == <<"blk">>
SEG_ATTN == <<"attn">>
SEG_TO_Q == <<"to", Us, "q">>
SEG_PROJ == <<"proj">>
SEG_RES == <<"res">>
SEG_CONV1 == <<"conv1">>
SEG_MLP == <<"mlp">>
SEG_FC1 == <<"fc1">>

\* widths of the modelled layers
Width == 3

\* The backbone the manager is built on: a Transformer2DModel holding an
\* Attention (with a Linear) and a 1x1 Conv2d, and a ResnetBlock2D holding a
\* 3x3 Conv2d.
StdUnet ==
    << Block(<<>>, "UNet2DConditionModel"),
       Block(<<SEG_BLK>>, "Transformer2DModel"),
       Block(<<SEG_BLK, SEG_ATTN>>, "Attention"),
       LinearM(<<SEG_BLK, SEG_ATTN, SEG_TO_Q>>, Width, Width, 1, None),
       Conv2dM(<<SEG_BLK, SEG_PROJ>>, 1, 1, 0, Width, Width, 1, Some(1)),
       Block(<<SEG_RES>>, "ResnetBlock2D"),
       Conv2dM(<<SEG_RES, SEG_CONV1>>, 3, 1, 1, Width, Width, 1, Some(1)) >>

StdTextEncoder ==
    << Block(<<>>, "CLIPTextModel"),
       Block(<<SEG_MLP>>, "CLIPMLP"),
       LinearM(<<SEG_MLP, SEG_FC1>>, Width, Width, 1, Some(1)) >>

STEM_Q == LORA_PREFIX_UNET \o <<Us>> \o SEG_BLK \o <<Us>> \o SEG_ATTN \o <<Us>> \o SEG_TO_Q
STEM_PROJ == LORA_PREFIX_UNET \o <<Us>> \o SEG_BLK \o <<Us>> \o SEG_PROJ
STEM_CONV1 == LORA_PREFIX_UNET \o <<Us>> \o SEG_RES \o <<Us>> \o SEG_CONV1
STEM_FC1 == LORA_PREFIX_TEXT_ENCODER \o <<Us>> \o SEG_MLP \o <<Us>> \o SEG_FC1
STEM_MISSING == LORA_PREFIX_UNET \o <<Us, "gone">>
STEM_FOREIGN == <<"lycoris", Us, "x">>

\* ------------------------------------------------------ checkpoint contents

Item(stem, leaf, shape, v) == [key |-> stem \o <<Dot>> \o leaf, value |-> Tensor(shape, v)]

AlphaItem(stem, alpha) == Item(stem, LEAF_ALPHA, <<>>, alpha)

\* kohya low-rank leaves for layer m: Linear leaves are 2-D, Conv2d leaves 4-D
\* with the layer's kernel on lora_down; cin is the input width written to
\* lora_down
DownItem(stem, m, r, cin) ==
    Item(stem, LEAF_DOWN,
         IF m.cls = "Conv2d" THEN <<r, cin, m.kernel, m.kernel>> ELSE <<r, cin>>, 2)
UpItem(stem, m, r) ==
    Item(stem, LEAF_UP, IF m.cls = "Conv2d" THEN <<m.cout, r, 1, 1>> ELSE <<m.cout, r>>, 3)

LowRankGroup(stem, m, r) == <<DownItem(stem, m, r, m.cin), UpItem(stem, m, r)>>
LowRankAlphaGroup(stem, m, r, alpha) == <<AlphaItem(stem, alpha)>> \o LowRankGroup(stem, m, r)
\* lora_down written for a layer one input wider than m
WrongWidthGroup(stem, m, r) == <<DownItem(stem, m, r, m.cin + 1), UpItem(stem, m, r)>>
\* LoCon with a mid leg (Conv2d): 1x1 down, k x k mid, 1x1 up
MidGroup(stem, m, r) ==
    << Item(stem, LEAF_DOWN, <<r, m.cin, 1, 1>>, 2),
       Item(stem, LEAF_MID, <<r, r, m.kernel, m.kernel>>, 1),
       UpItem(stem, m, r) >>
\* LoHa factors whose products have cin columns
HadaGroup(stem, m, r, cin, alpha) ==
    << AlphaItem(stem, alpha),
       Item(stem, LEAF_W1A, <<m.cout, r>>, 1), Item(stem, LEAF_W1B, <<r, cin>>, 2),
       Item(stem, LEAF_W2A, <<m.cout, r>>, 1), Item(stem, LEAF_W2B, <<r, cin>>, 1) >>
\* LoHa with cores, for a Conv2d whose kernel is not 1x1
HadaCoreGroup(stem, m, r, alpha) ==
    << AlphaItem(stem, alpha),
       Item(stem, LEAF_T1, <<r, r, m.kernel, m.kernel>>, 1),
       Item(stem, LEAF_W1A, <<r, m.cout>>, 1), Item(stem, LEAF_W1B, <<r, m.cin>>, 2),
       Item(stem, LEAF_T2, <<r, r, m.kernel, m.kernel>>, 1),
       Item(stem, LEAF_W2A, <<r, m.cout>>, 1), Item(stem, LEAF_W2B, <<r, m.cin>>, 1) >>
AlphaOnlyGroup(stem, alpha) == <<AlphaItem(stem, alpha)>>
UnknownGroup(stem) == <<Item(stem, <<"diff">>, <<Width, Width>>, 1)>>
DownOnlyGroup(stem, m, r) == <<DownItem(stem, m, r, m.cin)>>

M_Q == StdUnet[4]
M_PROJ == StdUnet[5]
M_CONV1 == StdUnet[7]
M_FC1 == StdTextEncoder[3]

\* the stem-groups the parsed state mappings are put together from
GroupChoices ==
    { LowRankGroup(STEM_Q, M_Q, 2), LowRankAlphaGroup(STEM_Q, M_Q, 2, 4),
      LowRankAlphaGroup(STEM_Q, M_Q, 2, 0), WrongWidthGroup(STEM_Q, M_Q, 2),
      HadaGroup(STEM_Q, M_Q, 2, Width, 4), HadaGroup(STEM_Q, M_Q, 2, Width + 1, 4),
      AlphaOnlyGroup(STEM_Q, 4), DownOnlyGroup(STEM_Q, M_Q, 2),
      LowRankGroup(STEM_CONV1, M_CONV1, 2), LowRankAlphaGroup(STEM_CONV1, M_CONV1, 2, 8),
      MidGroup(STEM_CONV1, M_CONV1, 2), HadaCoreGroup(STEM_CONV1, M_CONV1, 2, 2),
      UnknownGroup(STEM_CONV1),
      LowRankGroup(STEM_FC1, M_FC1, 4), LowRankAlphaGroup(STEM_FC1, M_FC1, 4, 2),
      UnknownGroup(STEM_FC1),
      LowRankGroup(STEM_MISSING, M_Q, 2), UnknownGroup(STEM_MISSING),
      LowRankGroup(STEM_FOREIGN, M_Q, 4),
      <<[key |-> STEM_FOREIGN, value |-> Tensor(<<>>, 1)]>> }

\* the longest state mapping, in stem-groups
MaxGroups == 3

StemOf(group) == SubSeq(group[1].key, 1, FirstDot(group[1].key) - 1)

RECURSIVE Flatten(_)
Flatten(gs) == IF gs = <<>> THEN <<>> ELSE Head(gs) \o Flatten(Tail(gs))

\* the groups' items dealt out in turn: the first item of every group, then
\* the second of every group, ...
RECURSIVE DealOut(_, _)
DealOut(gs, pos) ==
    IF \A i \in 1..Len(gs) : Len(gs[i]) < pos THEN <<>>
    ELSE LET has(g) == Len(g) >= pos
             row == SelectSeq(gs, has)
         IN  [i \in 1..Len(row) |-> row[i][pos]] \o DealOut(gs, pos + 1)

\* the sequences of at most `most` groups with distinct stems
GroupSeqs(most) ==
    { gs \in UNION { [1..n -> GroupChoices] : n \in 1..most } :
        \A i, j \in 1..Len(gs) : i # j => StemOf(gs[i]) # StemOf(gs[j]) }

\* the state mappings load_from_dict is studied on
StateDicts(most) ==
    { Flatten(gs) : gs \in GroupSeqs(most) } \cup { DealOut(gs, 1) : gs \in GroupSeqs(most) }

\* ------------------------------------------------------------- the manager

Names == {"a", "b", "c"}
Mults == {1, 2}
Suffixes == <<"ckpt", "safetensors", "pt">>
\* the keep-lists unload_applied_loras is called with
KeepLists == {{}, {"a"}, {"b"}, {"a", "b"}, {"b", "c"}}

\* the files under lora_path: <<name, suffix>> -> the mapping load_file/torch.load
\* gives.  a.safetensors holds a low-rank and a Hadamard group; b.ckpt holds a
\* resolved stem of unknown format between two low-rank groups; "c" has no file.
Disk ==
    (<<"a", "safetensors">> :>
        Flatten(<<LowRankAlphaGroup(STEM_Q, M_Q, 2, 4),
                  HadaCoreGroup(STEM_CONV1, M_CONV1, 2, 2)>>))
    @@ (<<"b", "ckpt">> :>
        Flatten(<<LowRankGroup(STEM_Q, M_Q, 2), UnknownGroup(STEM_PROJ),
                  LowRankGroup(STEM_CONV1, M_CONV1, 2)>>))
    @@ (<<"a", "pt">> :> Flatten(<<LowRankGroup(STEM_FC1, M_FC1, 2)>>))

\* dict item assignment and deletion on a function
Put(f, k, v) == [x \in (DOMAIN f) \cup {k} |-> IF x = k THEN v ELSE f[x]]
Del(f, k) == [x \in (DOMAIN f) \ {k} |-> f[x]]

\* applied_loras is insertion-ordered: the sequence of its (name, object) items
AppliedNames(a) == {a[i].name : i \in 1..Len(a)}
AppliedId(a, n) == (CHOOSE i \in 1..Len(a) : a[i].name = n)
AppliedPut(a, n, id) ==
    IF n \in AppliedNames(a) THEN [a EXCEPT ![AppliedId(a, n)].id = id]
    ELSE Append(a, [name |-> n, id |-> id])
AppliedDel(a, n) == LET keep(e) == e.name # n IN SelectSeq(a, keep)

\* Object ids are <<name, slot>>.  A new object is born in slot 0; when a call
\* ends, the objects no mapping refers to are freed and the others renamed:
\* slot 1 for the object applied_loras holds under the name, slot 2 for an
\* object only loaded_loras holds.
FreshId(name) == <<name, 0>>
LiveIds(l, a) == {l[n] : n \in DOMAIN l} \cup {a[i].id : i \in 1..Len(a)}
Slot(a, id) == IF \E i \in 1..Len(a) : a[i].id = id THEN <<id[1], 1>> ELSE <<id[1], 2>>
Settle(st) ==
    LET live == LiveIds(st.loaded, st.applied)
        old(nid) == CHOOSE id \in live : Slot(st.applied, id) = nid
    IN  [heap |-> [nid \in {Slot(st.applied, id) : id \in live} |-> st.heap[old(nid)]],
         loaded |-> [n \in DOMAIN st.loaded |-> Slot(st.applied, st.loaded[n])],
         applied |-> [i \in 1..Len(st.applied) |->
                        [name |-> st.applied[i].name, id |-> Slot(st.applied, st.applied[i].id)]]]

\* the file apply_lora_model settles on (lines 383..390): the first suffix whose
\* file exists, None when there is none
RECURSIVE FirstExisting(_, _, _)
FirstExisting(d, name, suffixes) ==
    IF suffixes = <<>> THEN None
    ELSE IF <<name, Head(suffixes)>> \in DOMAIN d THEN Some(<<name, Head(suffixes)>>)
    ELSE FirstExisting(d, name, Tail(suffixes))

\* The registry state the manager calls work on is [heap, loaded, applied]:
\* heap maps an object id to a LoRA object [name, multiplier, layers, rank,
\* alpha], loaded maps a name to an id, applied is the sequence of (name, id).
Registry == [heap |-> heap, loaded |-> loaded_loras, applied |-> applied_loras]

LoRAObject(r) ==
    [name |-> r.name, multiplier |-> r.multiplier, layers |-> r.layers,
     rank |-> r.rank, alpha |-> r.alpha]

\* Line 378 and what load_lora_module returns: the registry with the parsed
\* object stored, the object's id in `id`, and in `status` how load_from_dict
\* ended.  An exception of load_from_dict leaves the registry as it was.
store_loaded(st, name, lora) ==
    IF lora.status = "raise"
    THEN [heap |-> st.heap, loaded |-> st.loaded, applied |-> st.applied,
          id |-> FreshId(name), status |-> "raise"]
    ELSE [heap |-> Put(st.heap, FreshId(name), LoRAObject(lora)),
          loaded |-> Put(st.loaded, name, FreshId(name)),
          applied |-> st.applied, id |-> FreshId(name), status |-> lora.status]

\* KohyaLoraManager.load_lora_module
load_lora_module(st, name, path_file, multiplier) ==
    store_loaded(st, name,
                 load_from_dict(name, multiplier, Val(text_modules), Val(unet_modules),
                                disk[path_file]))

\* Lines 396..397 on the object ld.id of registry ld; status: how the
\* load_from_dict the call ran ended (NoneStr when it ran none).
activate(st, ld, name, mult) ==
    IF ld.status = "raise"
    THEN [heap |-> st.heap, loaded |-> st.loaded, applied |-> st.applied,
          resolved |-> TRUE, status |-> "raise"]
    ELSE [heap |-> [ld.heap EXCEPT ![ld.id].multiplier = mult],
          loaded |-> ld.loaded,
          applied |-> AppliedPut(ld.applied, name, ld.id),
          resolved |-> TRUE, status |-> ld.status]

\* apply_lora_model without line 396 for an adapter that is already loaded
apply_lora_model_stale(st, name, mult) ==
    LET path_file == FirstExisting(disk, name, Suffixes)
    IN  IF path_file = None
        THEN [heap |-> st.heap, loaded |-> st.loaded, applied |-> st.applied,
              resolved |-> FALSE, status |-> NoneStr]
        ELSE IF name \in DOMAIN st.loaded
        THEN [heap |-> st.heap, loaded |-> st.loaded,
              applied |-> AppliedPut(st.applied, name, st.loaded[name]),
              resolved |-> TRUE, status |-> NoneStr]
        ELSE activate(st, load_lora_module(st, name, Val(path_file), mult), name, mult)

\* KohyaLoraManager.apply_lora_model: the registry afterwards; resolved: a file
\* was found.
apply_lora_model(st, name, mult) ==
    LET path_file == FirstExisting(disk, name, Suffixes)
    IN  IF path_file = None
        THEN [heap |-> st.heap, loaded |-> st.loaded, applied |-> st.applied,
              resolved |-> FALSE, status |-> NoneStr]
        ELSE activate(st,
                      IF name \in DOMAIN st.loaded
                      THEN [heap |-> st.heap, loaded |-> st.loaded, applied |-> st.applied,
                            id |-> st.loaded[name], status |-> NoneStr]
                      ELSE load_lora_module(st, name, Val(path_file), mult),
                      name, mult)

\* KohyaLoraManager.unload_applied_lora
unload_applied_lora(st, lora_name) ==
    IF lora_name \in AppliedNames(st.applied)
    THEN [st EXCEPT !.applied = AppliedDel(st.applied, lora_name)]
    ELSE st

\* the loop's test the wrong way round
unload_step_inverted(st, name, loras_to_load_arg) ==
    IF name \in loras_to_load_arg THEN unload_applied_lora(st, name) ELSE st

\* one iteration of the loop of unload_applied_loras
unload_step(st, name, loras_to_load_arg) ==
    IF name \notin loras_to_load_arg THEN unload_applied_lora(st, name) ELSE st

RECURSIVE unload_loop(_, _, _)
unload_loop(st, names, loras_to_load_arg) ==
    IF names = <<>> THEN st
    ELSE unload_loop(unload_step(st, Head(names), loras_to_load_arg), Tail(names),
                     loras_to_load_arg)

\* KohyaLoraManager.unload_applied_loras: the loop runs over
\* list(applied_loras.keys()), taken before the first deletion
unload_applied_loras(st, loras_to_load_arg) ==
    unload_loop(st, [i \in 1..Len(st.applied) |-> st.applied[i].name], loras_to_load_arg)

\* KohyaLoraManager.unload_lora
unload_lora(st, lora_name) ==
    IF lora_name \in DOMAIN st.loaded
    THEN [st EXCEPT !.loaded = Del(st.loaded, lora_name)]
    ELSE st

\* LoRAModuleWrapper.clear_applied_loras
clear_applied_loras(st) == [st EXCEPT !.applied = <<>>]

\* ------------------------------------------------------------------ actions

\* the record of a call; `before` is the multiplier the name's active adapter
\* had when an apply_lora_model call began (None when it was not active)
Call(op, name, keep, resolved, status, before) ==
    [op |-> op, name |-> name, keep |-> keep, resolved |-> resolved, status |-> status,
     before |-> before]

\* the registry after a call
Commit(st) ==
    \E new \in {Settle(st)} :
        /\ loaded_loras' = new.loaded
        /\ applied_loras' = new.applied
        /\ heap' = new.heap

Frame == UNCHANGED <<unet, text_encoder, hooks, text_modules, unet_modules, disk,
                     state_dict, parsed>>

LoadLoraModule ==
    \E path_file \in DOMAIN disk, mult \in Mults :
        \E r \in {load_lora_module(Registry, path_file[1], path_file, mult)} :
            /\ Commit(r)
            /\ last' = Call("load_lora_module", path_file[1], {}, TRUE, r.status, None)
            /\ UNCHANGED <<loras_to_load, requested>>
            /\ Frame

ApplyLoraModel ==
    \E name \in Names, mult \in Mults :
        \E r \in {apply_lora_model(Registry, name, mult)} :
            /\ Commit(r)
            /\ last' = Call("apply_lora_model", name, {}, r.resolved, r.status,
                             IF name \in AppliedNames(applied_loras)
                             THEN Some(heap[applied_loras[AppliedId(applied_loras, name)].id]
                                           .multiplier)
                             ELSE None)
            /\ requested' = IF r.resolved THEN [requested EXCEPT ![name] = Some(mult)]
                            ELSE requested
            /\ UNCHANGED loras_to_load
            /\ Frame

UnloadAppliedLoras ==
    \E keep \in KeepLists :
        /\ Commit(unload_applied_loras(Registry, keep))
        /\ last' = Call("unload_applied_loras", NoneStr, keep, FALSE, NoneStr, None)
        /\ UNCHANGED <<loras_to_load, requested>>
        /\ Frame

UnloadAppliedLora ==
    \E name \in Names :
        /\ Commit(unload_applied_lora(Registry, name))
        /\ last' = Call("unload_applied_lora", name, {}, FALSE, NoneStr, None)
        /\ UNCHANGED <<loras_to_load, requested>>
        /\ Frame

UnloadLora ==
    \E name \in Names :
        /\ Commit(unload_lora(Registry, name))
        /\ last' = Call("unload_lora", name, {}, FALSE, NoneStr, None)
        /\ UNCHANGED <<loras_to_load, requested>>
        /\ Frame

ClearLoras ==
    /\ loras_to_load' = {}
    /\ Commit(clear_applied_loras(Registry))
    /\ last' = Call("clear_loras", NoneStr, {}, FALSE, NoneStr, None)
    /\ UNCHANGED requested
    /\ Frame

\* the state after KohyaLoraManager.__init__ on the modelled pipeline
Init ==
    /\ unet = StdUnet
    /\ text_encoder = StdTextEncoder
    /\ hooks = wrapper_hooks(StdUnet, StdTextEncoder)
    /\ text_modules = Some(wrapper_text_modules(StdTextEncoder))
    /\ unet_modules = Some(wrapper_unet_modules(StdUnet))
    /\ disk = Disk
    /\ heap = <<>>
    /\ loaded_loras = <<>>
    /\ applied_loras = <<>>
    /\ loras_to_load = {}
    /\ state_dict = <<>>
    /\ parsed = None
    /\ last = Call("__init__", NoneStr, {}, FALSE, NoneStr, None)
    /\ requested = [n \in Names |-> None]

Next ==
    \/ LoadLoraModule
    \/ ApplyLoraModel
    \/ UnloadAppliedLoras
    \/ UnloadAppliedLora
    \/ UnloadLora
    \/ ClearLoras

Spec == Init /\ [][Next]_vars

\* --------------------------------------- load_from_dict on its own inputs

ParseInit ==
    /\ unet = StdUnet
    /\ text_encoder = StdTextEncoder
    /\ hooks = wrapper_hooks(StdUnet, StdTextEncoder)
    /\ text_modules = Some(wrapper_text_modules(StdTextEncoder))
    /\ unet_modules = Some(wrapper_unet_modules(StdUnet))
    /\ disk = <<>>
    /\ heap = <<>>
    /\ loaded_loras = <<>>
    /\ applied_loras = <<>>
    /\ loras_to_load = {}
    /\ state_dict \in StateDicts(MaxGroups)
    /\ parsed = None
    /\ last = Call("__init__", NoneStr, {}, FALSE, NoneStr, None)
    /\ requested = [n \in Names |-> None]

\* LoRA("x", device, dtype, wrapper).load_from_dict(state_dict)
LoadFromDict ==
    /\ parsed = None
    /\ parsed' = Some(load_from_dict("x", 1, Val(text_modules), Val(unet_modules), state_dict))
    /\ UNCHANGED <<unet, text_encoder, hooks, text_modules, unet_modules, disk, heap,
                   loaded_loras, applied_loras, loras_to_load, state_dict, last, requested>>

ParseNext == LoadFromDict

ParseSpec == ParseInit /\ [][ParseNext]_vars

\* ------------------------------------ LoRAModuleWrapper.__init__ on its inputs

\* A backbone of the family: a block of class c1 holding, when c2 is given, a
\* block of class c2 with (when l2 is given) a leaf l2, and (when l1 is given)
\* a leaf l1.  A leaf is Some(0) for a Linear, Some(k) for a k x k Conv2d; an
\* absent block is NoneStr, an absent leaf None.
LeafM(path, l) ==
    IF l = 0 THEN LinearM(path, Width, Width, 1, Some(1))
    ELSE Conv2dM(path, l, 1, l \div 2, Width, Width, 1, Some(1))

Net(root_cls, seg1, c1, seg2, c2, seg3, l2, seg4, l1) ==
    << Block(<<>>, root_cls), Block(<<seg1>>, c1) >>
    \o (IF c2 = NoneStr THEN <<>> ELSE <<Block(<<seg1, seg2>>, c2)>>)
    \o (IF c2 = NoneStr \/ l2 = None THEN <<>> ELSE <<LeafM(<<seg1, seg2, seg3>>, Val(l2))>>)
    \o (IF l1 = None THEN <<>> ELSE <<LeafM(<<seg1, seg4>>, Val(l1))>>)

LeafChoices == {Some(0), Some(1), Some(3), Some(5), None}

UnetFamily ==
    { Net("UNet2DConditionModel", SEG_BLK, c1, SEG_ATTN, c2, SEG_TO_Q, l2, SEG_PROJ, l1) :
        c1 \in {"Transformer2DModel", "Attention", "ModuleList"},
        c2 \in {"Attention", "BasicTransformerBlock", NoneStr},
        l2 \in LeafChoices, l1 \in LeafChoices }

TextEncoderFamily ==
    { Net("CLIPTextModel", SEG_BLK, c1, SEG_MLP, c2, SEG_FC1, Some(0), SEG_PROJ, None) :
        c1 \in {"ResidualAttentionBlock", "CLIPEncoderLayer"},
        c2 \in {"CLIPMLP", "CLIPAttention"} }

DiscoverInit ==
    /\ unet \in UnetFamily
    /\ text_encoder \in TextEncoderFamily
    /\ hooks = <<>>
    /\ text_modules = None
    /\ unet_modules = None
    /\ disk = <<>>
    /\ heap = <<>>
    /\ loaded_loras = <<>>
    /\ applied_loras = <<>>
    /\ loras_to_load = {}
    /\ state_dict = <<>>
    /\ parsed = None
    /\ last = Call("__init__", NoneStr, {}, FALSE, NoneStr, None)
    /\ requested = [n \in Names |-> None]

\* the two find_modules calls of LoRAModuleWrapper.__init__
Construct ==
    /\ text_modules = None
    /\ unet_modules = None
    /\ text_modules' = Some(wrapper_text_modules(text_encoder))
    /\ unet_modules' = Some(wrapper_unet_modules(unet))
    /\ hooks' = hooks \o wrapper_hooks(unet, text_encoder)
    /\ UNCHANGED <<unet, text_encoder, disk, heap, loaded_loras, applied_loras,
                   loras_to_load, state_dict, parsed, last, requested>>

DiscoverNext == Construct

DiscoverSpec == DiscoverInit /\ [][DiscoverNext]_vars

\* ================================================================ properties

\* what the two mappings hold, object ids resolved
LoadedView == [n \in DOMAIN loaded_loras |-> heap[loaded_loras[n]]]
AppliedView ==
    [i \in 1..Len(applied_loras) |->
        [name |-> applied_loras[i].name, lora |-> heap[applied_loras[i].id]]]
AppliedObjects == [i \in 1..Len(applied_loras) |-> heap[applied_loras[i].id]]

\* C1: in every reachable state the active names are a subset of the loaded
\* names.
C1_AppliedSubsetOfLoaded == AppliedNames(applied_loras) \subseteq DOMAIN loaded_loras

\* the identifiers the registry installed hooks under, with their layers
HookedLayers == [s \in (DOMAIN Val(text_modules)) \cup (DOMAIN Val(unet_modules)) |->
                    IF s \in DOMAIN Val(text_modules) THEN Val(text_modules)[s]
                    ELSE Val(unet_modules)[s]]

\* an input the layer accepts, and the layer's own output on it
ProbeInput(m) ==
    [err |-> FALSE,
     shape |-> IF m.cls = "Conv2d" THEN <<1, m.cin, 4, 4>> ELSE <<1, m.cin>>,
     v |-> RInt(1)]
BaseOutput(m) == ModuleOp(m, ProbeInput(m), m.w)

\* the active adapters that hold a Layer Delta for L, in activation order
ActiveFor(L) == LET has(lora) == L \in DOMAIN lora.layers IN SelectSeq(AppliedObjects, has)

\* base plus the contribution of each adapter of `loras` for L
RECURSIVE PlusContributions(_, _, _)
PlusContributions(L, loras, output) ==
    IF loras = <<>> THEN output
    ELSE PlusContributions(L, Tail(loras),
            Layer_forward(Head(loras).layers[L], Head(loras), ProbeInput(HookedLayers[L]), output))

HookResult(L) ==
    lora_forward(L, Cardinality(DOMAIN loaded_loras), AppliedObjects,
                 ProbeInput(HookedLayers[L]), BaseOutput(HookedLayers[L]))

\* C2: in every reachable state the hook of a patched layer L returns the base
\* output plus the contribution of every active adapter that has a Layer Delta
\* for L, and the base output unchanged only when no active adapter has one.
C2_HookAddsEveryActiveDelta ==
    \A L \in DOMAIN HookedLayers :
        /\ HookResult(L) = PlusContributions(L, ActiveFor(L), BaseOutput(HookedLayers[L]))
        /\ HookResult(L) = BaseOutput(HookedLayers[L]) => ActiveFor(L) = <<>>

\* C3: after load_lora_module or apply_lora_model on a checkpoint whose parse
\* stopped at a stem of unknown leaf format, the adapter's name is neither
\* loaded nor active.
C3_AbortedAdapterNotStored ==
    (last.op \in {"load_lora_module", "apply_lora_model"} /\ last.status = "return")
        => /\ last.name \notin DOMAIN loaded_loras
           /\ last.name \notin AppliedNames(applied_loras)

\* C5: every active adapter carries the multiplier of the latest
\* apply_lora_model call for its name that found a file, and such a call on a
\* name that is already loaded runs no parse and activates the loaded object.
C5_LatestMultiplier ==
    /\ [](\A i \in 1..Len(applied_loras) :
            /\ requested[applied_loras[i].name] # None
            /\ heap[applied_loras[i].id].multiplier = Val(requested[applied_loras[i].name]))
    /\ [][(/\ last'.op = "apply_lora_model"
           /\ last'.resolved
           /\ last'.name \in DOMAIN loaded_loras)
          => /\ last'.status = NoneStr
             /\ last'.name \in DOMAIN LoadedView'
             /\ LoadedView'[last'.name] =
                    [LoadedView[last'.name] EXCEPT
                        !.multiplier = Val(requested'[last'.name])]
             /\ \E i \in 1..Len(applied_loras') :
                    /\ applied_loras'[i].name = last'.name
                    /\ applied_loras'[i].id = loaded_loras'[last'.name]]_vars

\* an apply_lora_model call found its adapter active with multiplier 1 (an
\* earlier call's), ran no parse and left it active with multiplier 2
C5_Witness ==
    /\ last.op = "apply_lora_model"
    /\ last.resolved
    /\ last.status = NoneStr
    /\ last.before = Some(1)
    /\ requested[last.name] = Some(2)
    /\ last.name \in AppliedNames(applied_loras)
    /\ heap[loaded_loras[last.name]].multiplier = 2

\* C10: unload_applied_loras(keep_names) leaves active exactly the adapters
\* that were active and are named in keep_names, in their order, and changes
\* neither the loaded set nor any adapter.
C10_UnloadKeepsExactly ==
    [][last'.op = "unload_applied_loras"
       => /\ AppliedView' = LET kept(e) == e.name \in last'.keep IN SelectSeq(AppliedView, kept)
          /\ LoadedView' = LoadedView]_vars

\* unload_applied_loras({"a"}) has run: "a" is still active, "b" is loaded and
\* not active
C10_Witness ==
    /\ last.op = "unload_applied_loras"
    /\ last.keep = {"a"}
    /\ AppliedNames(applied_loras) = {"a"}
    /\ "b" \in DOMAIN loaded_loras

\* ------------------------------------------------ load_from_dict properties

Parsed == Val(parsed)
Groups == state_dict_groupped(state_dict)
Resolves(stem) == Tracked(stem) /\ Wrapped(Val(text_modules), Val(unet_modules), stem) # None
LayerOf(stem) == Val(Wrapped(Val(text_modules), Val(unet_modules), stem))
\* the stems of the groups g that resolve to a patched layer
ResolvedStems(g) == {g[i].stem : i \in {j \in 1..Len(g) : Resolves(g[j].stem)}}

\* a / r, and 1 when either is absent or zero
AlphaOverRank(a, r) ==
    IF a = None \/ r = None THEN <<1, 1>>
    ELSE IF Val(a) = 0 \/ Val(r) = 0 THEN <<1, 1>>
    ELSE <<Val(a), Val(r)>>

\* C6: a low-rank delta whose stem-group has no alpha leaf gets scale =
\* adapter-wide alpha / adapter-wide rank (1.0 when either is absent or zero);
\* a delta whose group has an alpha leaf gets scale = that alpha / rank.
C6_ScaleFromAdapterOrLocalAlpha ==
    parsed # None =>
        LET g == Groups
            lora == Parsed
        IN  \A i \in 1..Len(g) :
                g[i].stem \in DOMAIN lora.layers =>
                    LET layer == lora.layers[g[i].stem]
                        values == g[i].values
                        rank == IF layer.variant = "lora" THEN lora.rank
                                ELSE Some(values[LEAF_W1B].shape[1])
                    IN  IF LEAF_ALPHA \in DOMAIN values
                        THEN REq(layer.scale, AlphaOverRank(Some(values[LEAF_ALPHA].v), rank))
                        ELSE layer.variant = "lora"
                                => REq(layer.scale, AlphaOverRank(lora.alpha, lora.rank))

\* the forward pass of adapter lora's delta for stem on an input its layer accepts
ForwardOf(lora, stem) ==
    Layer_forward(lora.layers[stem], lora, ProbeInput(LayerOf(stem)), BaseOutput(LayerOf(stem)))

\* C7 (as claimed): a delta whose shapes do not fit the patched layer is rejected
\* by load_from_dict, so no delta of an adapter that loaded can fail with a
\* shape error in the forward pass.
C7_NoShapeErrorAfterLoad ==
    (parsed # None /\ Parsed.status = "done") =>
        \A stem \in DOMAIN Parsed.layers : ~ForwardOf(Parsed, stem).err

\* a stored delta whose lora_down input width, or whose Hadamard factor product,
\* does not fit its layer
WidthMismatch(layer, m) ==
    IF layer.variant = "lora" THEN layer.down.wshape[2] # m.cin
    ELSE layer.t1 = None
         /\ Numel(<<layer.w1_a.shape[1], layer.w1_b.shape[2]>>) # Numel(WeightShape(m))

\* the leaves of a low-rank group have the dimensions of the layer's kind: 2-D
\* for a Linear, 4-D for a Conv2d with the layer's kernel on lora_down (1x1 down
\* and the layer's kernel on lora_mid when there is a mid leg) and 1x1 on lora_up
LowRankLeaves(values, m) ==
    /\ {LEAF_DOWN, LEAF_UP} \subseteq DOMAIN values
    /\ DOMAIN values \subseteq {LEAF_DOWN, LEAF_UP, LEAF_MID, LEAF_ALPHA}
    /\ LEAF_ALPHA \in DOMAIN values => values[LEAF_ALPHA].shape = <<>>
    /\ IF m.cls = "Linear"
       THEN Len(values[LEAF_DOWN].shape) = 2 /\ Len(values[LEAF_UP].shape) = 2
       ELSE /\ Len(values[LEAF_DOWN].shape) = 4 /\ Len(values[LEAF_UP].shape) = 4
            /\ SubSeq(values[LEAF_UP].shape, 3, 4) = <<1, 1>>
            /\ IF LEAF_MID \in DOMAIN values
               THEN /\ SubSeq(values[LEAF_DOWN].shape, 3, 4) = <<1, 1>>
                    /\ Len(values[LEAF_MID].shape) = 4
                    /\ SubSeq(values[LEAF_MID].shape, 3, 4) = <<m.kernel, m.kernel>>
               ELSE SubSeq(values[LEAF_DOWN].shape, 3, 4) = <<m.kernel, m.kernel>>

\* every key of sd has a ".", and every group of a resolved stem is a low-rank
\* group with leaves of the layer's kind; the widths written in the leaves are
\* free
LowRankButForWidths(sd, g) ==
    /\ \A k \in 1..Len(sd) : FirstDot(sd[k].key) # 0
    /\ \A k \in 1..Len(sd) : EndsWith(sd[k].key, LEAF_ALPHA) => sd[k].value.shape = <<>>
    /\ \A i \in 1..Len(g) : Resolves(g[i].stem) => LowRankLeaves(g[i].values, LayerOf(g[i].stem))

\* C7 (amended): load_from_dict does not compare a delta's widths with the
\* patched layer: a low-rank state mapping loads whatever widths its leaves
\* carry, each resolved stem getting its delta, and a stored delta whose
\* lora_down input width or Hadamard factor product does not fit the layer
\* fails with a shape error in the forward pass.
C7_MismatchSurfacesAtForward ==
    parsed # None =>
        LET g == Groups
            lora == Parsed
        IN  /\ LowRankButForWidths(state_dict, g) =>
                  lora.status = "done" /\ DOMAIN lora.layers = ResolvedStems(g)
            /\ \A stem \in DOMAIN lora.layers :
                  WidthMismatch(lora.layers[stem], LayerOf(stem)) => ForwardOf(lora, stem).err

\* a mapping loaded to the end and stored a low-rank delta one input too wide
C7_Witness ==
    /\ parsed # None
    /\ LowRankButForWidths(state_dict, Groups)
    /\ Parsed.status = "done"
    /\ \E stem \in DOMAIN Parsed.layers :
          /\ Parsed.layers[stem].variant = "lora"
          /\ WidthMismatch(Parsed.layers[stem], LayerOf(stem))
          /\ ForwardOf(Parsed, stem).err

\* a well-formed low-rank state mapping: low-rank leaves of the layer's kind
\* whose widths are the layer's
WellFormedLowRank(sd, g) ==
    /\ LowRankButForWidths(sd, g)
    /\ \A i \in 1..Len(g) :
          Resolves(g[i].stem) =>
              LET values == g[i].values
                  m == LayerOf(g[i].stem)
                  r == values[LEAF_DOWN].shape[1]
              IN  /\ values[LEAF_DOWN].shape[2] = m.cin
                  /\ values[LEAF_UP].shape[1] = m.cout
                  /\ values[LEAF_UP].shape[2] = r
                  /\ LEAF_MID \in DOMAIN values => SubSeq(values[LEAF_MID].shape, 1, 2) = <<r, r>>

\* C8: parsing a well-formed low-rank state mapping ends without raising and
\* yields exactly one Layer Delta per stem that resolves to a patchable layer,
\* keyed by and named after that stem; unresolved stems are passed over.
C8_OneDeltaPerResolvedStem ==
    parsed # None =>
        LET g == Groups
            lora == Parsed
        IN  WellFormedLowRank(state_dict, g) =>
                /\ lora.status = "done"
                /\ DOMAIN lora.layers = ResolvedStems(g)
                /\ \A stem \in DOMAIN lora.layers :
                      /\ lora.layers[stem].name = stem
                      /\ lora.layers[stem].variant = "lora"
                      /\ ~ForwardOf(lora, stem).err

\* a well-formed mapping whose first stem does not resolve and whose two later
\* stems got their deltas
C8_Witness ==
    /\ parsed # None
    /\ WellFormedLowRank(state_dict, Groups)
    /\ Len(Groups) = 3
    /\ ~Resolves(Groups[1].stem)
    /\ DOMAIN Parsed.layers = {Groups[2].stem, Groups[3].stem}

\* a resolved stem-group with neither a lora_down.weight nor a hada_w1_b leaf
UnknownFormat(group) ==
    /\ Resolves(group.stem)
    /\ LEAF_DOWN \notin DOMAIN group.values
    /\ LEAF_W1B \notin DOMAIN group.values

FirstUnknown(g) == CHOOSE i \in 1..Len(g) :
                      UnknownFormat(g[i]) /\ \A j \in 1..(i - 1) : ~UnknownFormat(g[j])

\* C9: when load_from_dict reaches a resolved stem-group of unknown format it
\* returns without raising, and layers holds a delta for exactly the resolved
\* stems grouped before that one, none for it or for a later stem.
C9_UnknownFormatStopsParse ==
    parsed # None =>
        LET g == Groups
            lora == Parsed
        IN  (lora.status # "raise" /\ \E i \in 1..Len(g) : UnknownFormat(g[i]))
            => /\ lora.status = "return"
               /\ DOMAIN lora.layers = ResolvedStems(SubSeq(g, 1, FirstUnknown(g) - 1))
               /\ \A stem \in DOMAIN lora.layers : lora.layers[stem].name = stem

\* the parse stopped at the second of three groups: the first stem has its
\* delta, the third, a low-rank group of a resolved stem, has none
C9_Witness ==
    /\ parsed # None
    /\ Parsed.status = "return"
    /\ Len(Groups) = 3
    /\ UnknownFormat(Groups[2])
    /\ DOMAIN Parsed.layers = {Groups[1].stem}
    /\ Resolves(Groups[3].stem)
    /\ LEAF_DOWN \in DOMAIN Groups[3].values

\* ----------------------------------------------------- discovery properties

\* the children find_modules collected, as (network, path)
Collected ==
    {[net |-> "text_encoder", path |-> Val(text_modules)[s].path] : s \in DOMAIN Val(text_modules)}
    \cup {[net |-> "unet", path |-> Val(unet_modules)[s].path] : s \in DOMAIN Val(unet_modules)}

HandlesOn(c) == {k \in 1..Len(hooks) : hooks[k].net = c.net /\ hooks[k].module = c.path}

\* C4: after construction every collected patchable child has exactly one
\* forward hook, and the hook list holds one handle per collected child.
C4_OneHookPerCollectedChild ==
    text_modules # None =>
        /\ \A c \in Collected : Cardinality(HandlesOn(c)) = 1
        /\ Len(hooks) = Cardinality(Collected)

====
